---- MODULE Spec2Model ----
(***************************************************************************)
(* Model of parse_handwritten_transactions (src/bot.py, lines 148-232),    *)
(* the text-to-record parser of the transaction bot.                       *)
(*                                                                         *)
(* A text is a sequence of one-character strings.  The regular             *)
(* expressions of the source are modelled by position-scanning operators   *)
(* that return what Python's backtracking matcher returns: the leftmost    *)
(* match, greedy quantifiers longest first, lazy quantifiers shortest      *)
(* first.  A position p is 1-based; an "end" is the position just after    *)
(* the last matched character; 0 stands for "no match" (None).             *)
(*                                                                         *)
(* float values are modelled exactly as decimal numbers: the record        *)
(* [ok, i, f] holds the integer part i and the fractional digits f with    *)
(* trailing zeros removed; ok = FALSE stands for a raised ValueError.      *)
(* Amounts stay below 2^31 and inside the exact range of a float.          *)
(*                                                                         *)
(* Spec reads pages of several lines (an optional first line, then lines   *)
(* of SampleLines); SpecLine reads pages of one line put together from     *)
(* pieces.  The history variable shape keeps what the page was built from: *)
(* [header, body, sep] under Spec and [pre, count, gap, marker, desc, n1,  *)
(* n2, trail] under SpecLine.  The text is fixed for a behaviour and the   *)
(* parser may be called on it any number of times, the clock moving on     *)
(* between and during the calls.                                           *)
(***************************************************************************)
EXTENDS Integers, Sequences, FiniteSets, TLC

VARIABLES
    ocr_text,          \* the argument of parse_handwritten_transactions
    now,               \* the clock read by datetime.now()
    pc,                \* "idle", "loop" (inside the for loop), "done", "raised"
    transaction_date,  \* local of the running call
    lines,             \* local of the running call
    i,                 \* index (1-based) of the next line of the for loop
    transactions,      \* local of the running call, returned at the end
    origin,            \* history: origin[k] is the index of the line of transactions[k]
    clock_at_call,     \* history: the clock when the running call started
    prev,              \* history: what the previous call returned
    shape              \* history: the pieces the input text was built from

vars == <<ocr_text, now, pc, transaction_date, lines, i, transactions, origin,
          clock_at_call, prev, shape>>

-----------------------------------------------------------------------------
(* Characters *)

Digits == {"0", "1", "2", "3", "4", "5", "6", "7", "8", "9"}

IsDigit(c) == c \in Digits

DigitValue(c) ==
    CASE c = "0" -> 0 [] c = "1" -> 1 [] c = "2" -> 2 [] c = "3" -> 3
      [] c = "4" -> 4 [] c = "5" -> 5 [] c = "6" -> 6 [] c = "7" -> 7
      [] c = "8" -> 8 [] c = "9" -> 9

\* \s of re and the characters str.strip() removes (ASCII part)
IsSpace(c) == c \in {" ", "\t", "\n", "\r"}

\* str.lower() on one character (ASCII part)
Lower(c) ==
    CASE c = "A" -> "a" [] c = "B" -> "b" [] c = "C" -> "c" [] c = "D" -> "d"
      [] c = "E" -> "e" [] c = "F" -> "f" [] c = "G" -> "g" [] c = "H" -> "h"
      [] c = "I" -> "i" [] c = "J" -> "j" [] c = "K" -> "k" [] c = "L" -> "l"
      [] c = "M" -> "m" [] c = "N" -> "n" [] c = "O" -> "o" [] c = "P" -> "p"
      [] c = "Q" -> "q" [] c = "R" -> "r" [] c = "S" -> "s" [] c = "T" -> "t"
      [] c = "U" -> "u" [] c = "V" -> "v" [] c = "W" -> "w" [] c = "X" -> "x"
      [] c = "Y" -> "y" [] c = "Z" -> "z" [] OTHER -> c

LowerSeq(s) == [k \in 1..Len(s) |-> Lower(s[k])]

-----------------------------------------------------------------------------
(* String helpers *)

RECURSIVE LStrip(_)
LStrip(s) == IF s = <<>> \/ ~IsSpace(Head(s)) THEN s ELSE LStrip(Tail(s))

RECURSIVE RStrip(_)
RStrip(s) ==
    IF s = <<>> \/ ~IsSpace(s[Len(s)]) THEN s ELSE RStrip(SubSeq(s, 1, Len(s) - 1))

\* str.strip()
Strip(s) == RStrip(LStrip(s))

\* sub in s
Contains(s, sub) ==
    \E k \in 1..(Len(s) - Len(sub) + 1) : SubSeq(s, k, k + Len(sub) - 1) = sub

\* the slice s[a:b) in positions
Slice(s, a, b) == SubSeq(s, a, b - 1)

\* first position >= p that holds no digit
RECURSIVE SkipDigits(_, _)
SkipDigits(s, p) == IF p <= Len(s) /\ IsDigit(s[p]) THEN SkipDigits(s, p + 1) ELSE p

\* first position >= p that holds no whitespace
RECURSIVE SkipSpaces(_, _)
SkipSpaces(s, p) == IF p <= Len(s) /\ IsSpace(s[p]) THEN SkipSpaces(s, p + 1) ELSE p

-----------------------------------------------------------------------------
(* float() *)

RECURSIVE DigitsValue(_)
DigitsValue(ds) ==
    IF ds = <<>> THEN 0 ELSE 10 * DigitsValue(SubSeq(ds, 1, Len(ds) - 1)) + DigitValue(ds[Len(ds)])

RECURSIVE StripZeros(_)
StripZeros(ds) ==
    IF ds = <<>> \/ ds[Len(ds)] # "0" THEN ds ELSE StripZeros(SubSeq(ds, 1, Len(ds) - 1))

ValueError == [ok |-> FALSE, i |-> 0, f |-> <<>>]

Zero == [ok |-> TRUE, i |-> 0, f |-> <<>>]

\* int(tok): a token with a decimal point raises ValueError
IntOf(tok) ==
    IF tok # <<>> /\ \A k \in 1..Len(tok) : IsDigit(tok[k])
    THEN [ok |-> TRUE, i |-> DigitsValue(tok), f |-> <<>>]
    ELSE ValueError

\* float(tok) for a token of digits and points: digits, at most one point,
\* at least one digit; anything else raises ValueError
ToFloat(tok) ==
    LET d  == SkipDigits(tok, 1)
        e  == IF d <= Len(tok) /\ tok[d] = "." THEN SkipDigits(tok, d + 1) ELSE d
        ip == Slice(tok, 1, d)
        fp == IF e > d THEN Slice(tok, d + 1, e) ELSE <<>>
    IN  IF e = Len(tok) + 1 /\ Len(ip) + Len(fp) > 0
        THEN [ok |-> TRUE, i |-> DigitsValue(ip), f |-> StripZeros(fp)]
        ELSE ValueError

\* v > 0
Positive(v) == v.i > 0 \/ v.f # <<>>

-----------------------------------------------------------------------------
(* The regular expressions *)

NoMatch == [matched |-> FALSE, g1 |-> <<>>, g2 |-> <<>>, g3 |-> <<>>, g4 |-> <<>>]

\* \d+(?:\.\d+)? at p: the end of the match, 0 when there is none.  Greedy:
\* every digit of the run, and the fraction when a point and a digit follow.
\* A shorter alternative of the backtracking matcher leaves a digit or a
\* point as the next character, which none of the patterns below accepts
\* after a number, so only the longest match is kept.
MatchNumber(s, p) ==
    IF p <= Len(s) /\ IsDigit(s[p])
    THEN LET a == SkipDigits(s, p)
         IN  IF a + 1 <= Len(s) /\ s[a] = "." /\ IsDigit(s[a + 1])
             THEN SkipDigits(s, a + 1)
             ELSE a
    ELSE 0

\* \d+\s*p[cs]? at p under re.IGNORECASE, followed by \s: the end of the
\* quantity group, 0 when there is none.  [cs]? takes the letter when it is
\* there; giving it back leaves "c" or "s" where \s+ must match, so that
\* alternative never succeeds.
MatchQty(s, p) ==
    IF p <= Len(s) /\ IsDigit(s[p])
    THEN LET a == SkipDigits(s, p)
             b == SkipSpaces(s, a)
         IN  IF b <= Len(s) /\ Lower(s[b]) = "p"
             THEN LET c == IF b + 1 <= Len(s) /\ Lower(s[b + 1]) \in {"c", "s"}
                           THEN b + 2 ELSE b + 1
                  IN  IF c <= Len(s) /\ IsSpace(s[c]) THEN c ELSE 0
             ELSE 0
    ELSE 0

\* \s+(\d+(?:\.\d+)?)\s+(\d+(?:\.\d+)?)\s*$ at p: the two numbers, or NoMatch
TailAt(s, p) ==
    LET t  == SkipSpaces(s, p)
        n1 == MatchNumber(s, t)
        u  == SkipSpaces(s, n1)
        n2 == MatchNumber(s, u)
    IN  IF t > p /\ n1 # 0 /\ u > n1 /\ n2 # 0 /\ SkipSpaces(s, n2) = Len(s) + 1
        THEN [matched |-> TRUE, g1 |-> <<>>, g2 |-> <<>>,
              g3 |-> Slice(s, t, n1), g4 |-> Slice(s, u, n2)]
        ELSE NoMatch

\* ([^0-9]+?) from d0, lazy: the shortest digit-free text [d0, d1) after
\* which the tail matches
RECURSIVE DescFrom(_, _, _)
DescFrom(s, d0, d1) ==
    IF d1 > Len(s) + 1 \/ IsDigit(s[d1 - 1])
    THEN NoMatch
    ELSE LET t == TailAt(s, d1)
         IN  IF t.matched
             THEN [t EXCEPT !.g2 = Slice(s, d0, d1)]
             ELSE DescFrom(s, d0, d1 + 1)

\* \s+ after the quantity, greedy: the description starts at d0, tried from
\* the end of the whitespace run down to one character after the quantity
RECURSIVE SpacesThenDesc(_, _, _)
SpacesThenDesc(s, e1, d0) ==
    IF d0 <= e1
    THEN NoMatch
    ELSE LET m == DescFrom(s, d0, d0 + 1)
         IN  IF m.matched THEN m ELSE SpacesThenDesc(s, e1, d0 - 1)

\* the pattern tried at start position p only
StrictAt(s, p) ==
    LET e1 == MatchQty(s, p)
    IN  IF e1 = 0
        THEN NoMatch
        ELSE LET m == SpacesThenDesc(s, e1, SkipSpaces(s, e1))
             IN  IF m.matched THEN [m EXCEPT !.g1 = Slice(s, p, e1)] ELSE NoMatch

RECURSIVE SearchStrict(_, _)
SearchStrict(s, p) ==
    IF p > Len(s)
    THEN NoMatch
    ELSE LET m == StrictAt(s, p)
         IN  IF m.matched THEN m ELSE SearchStrict(s, p + 1)

\* re.search(transaction_pattern, line, re.IGNORECASE): the pattern has no
\* ^, so the search tries every start position, leftmost first
TransactionPattern(line) == SearchStrict(line, 1)

\* re.search(qty_pattern, line, re.IGNORECASE): anchored by ^; \s+ greedy,
\* then (.+) needs one character at least (a line holds no newline)
QtyPattern(line) ==
    LET e1 == MatchQty(line, 1)
        w  == SkipSpaces(line, e1)
        d0 == IF w <= Len(line) THEN w ELSE Len(line)
    IN  IF e1 # 0 /\ d0 > e1
        THEN [matched |-> TRUE, g1 |-> Slice(line, 1, e1),
              g2 |-> Slice(line, d0, Len(line) + 1), g3 |-> <<>>, g4 |-> <<>>]
        ELSE NoMatch

\* re.findall(r'\d+(?:\.\d+)?', s): the tokens from left to right, not overlapping
RECURSIVE FindAllFrom(_, _)
FindAllFrom(s, p) ==
    IF p > Len(s)
    THEN <<>>
    ELSE LET e == MatchNumber(s, p)
         IN  IF e # 0 THEN <<Slice(s, p, e)>> \o FindAllFrom(s, e)
                      ELSE FindAllFrom(s, p + 1)

FindAllNumbers(s) == FindAllFrom(s, 1)

\* re.sub(r'\d+(?:\.\d+)?', '', s, count=1): only the first token removed
RECURSIVE RemoveFirstFrom(_, _)
RemoveFirstFrom(s, p) ==
    IF p > Len(s)
    THEN <<>>
    ELSE LET e == MatchNumber(s, p)
         IN  IF e # 0 THEN Slice(s, e, Len(s) + 1)
                      ELSE <<s[p]>> \o RemoveFirstFrom(s, p + 1)

RemoveFirstNumber(s) == RemoveFirstFrom(s, 1)

\* re.sub(r'\d+(?:\.\d+)?', '', s)
RECURSIVE RemoveFrom(_, _)
RemoveFrom(s, p) ==
    IF p > Len(s)
    THEN <<>>
    ELSE LET e == MatchNumber(s, p)
         IN  IF e # 0 THEN RemoveFrom(s, e)
                      ELSE <<s[p]>> \o RemoveFrom(s, p + 1)

RemoveNumbers(s) == RemoveFrom(s, 1)

\* \d{1,2} at p, followed by a separator: the end, 0 when there is none.
\* Two digits when the second character is a digit (one digit would leave a
\* digit where [-/] must match), one otherwise.
MatchDayMonth(s, p) ==
    IF p <= Len(s) /\ IsDigit(s[p])
    THEN LET e == IF p + 1 <= Len(s) /\ IsDigit(s[p + 1]) THEN p + 2 ELSE p + 1
         IN  IF e <= Len(s) /\ s[e] \in {"-", "/"} THEN e ELSE 0
    ELSE 0

\* \d{1,2}[-/]\d{1,2}[-/]\d{2,4} at p: the end, 0 when there is none.  The
\* year is greedy and nothing follows it: as many digits as are there, four
\* at most.
MatchDate(s, p) ==
    LET d == MatchDayMonth(s, p)
        m == IF d = 0 THEN 0 ELSE MatchDayMonth(s, d + 1)
        y == IF m = 0 THEN 0 ELSE SkipDigits(s, m + 1)
    IN  IF m = 0 \/ y - (m + 1) < 2 THEN 0
        ELSE IF y - (m + 1) > 4 THEN m + 5 ELSE y

\* the last match instead of the first one
RECURSIVE SearchDateLast(_, _)
SearchDateLast(s, p) ==
    IF p < 1
    THEN <<>>
    ELSE LET e == MatchDate(s, p)
         IN  IF e # 0 THEN <<Slice(s, p, e)>> ELSE SearchDateLast(s, p - 1)

DateSearchLast(s) == SearchDateLast(s, Len(s))

RECURSIVE SearchDate(_, _)
SearchDate(s, p) ==
    IF p > Len(s)
    THEN <<>>
    ELSE LET e == MatchDate(s, p)
         IN  IF e # 0 THEN <<Slice(s, p, e)>> ELSE SearchDate(s, p + 1)

\* re.search(r'(\d{1,2}[-/]\d{1,2}[-/]\d{2,4})', ocr_text): <<group(1)>>,
\* or <<>> for None
DateSearch(s) == SearchDate(s, 1)


-----------------------------------------------------------------------------
(* The parser *)

DigitChar(n) ==
    CASE n = 0 -> "0" [] n = 1 -> "1" [] n = 2 -> "2" [] n = 3 -> "3"
      [] n = 4 -> "4" [] n = 5 -> "5" [] n = 6 -> "6" [] n = 7 -> "7"
      [] n = 8 -> "8" [] n = 9 -> "9"

\* datetime.now().strftime("%d-%m-%Y"): day and month zero-padded to two
\* digits, year to four
Strftime(clock) ==
    <<DigitChar((clock.day \div 10) % 10), DigitChar(clock.day % 10), "-",
      DigitChar((clock.month \div 10) % 10), DigitChar(clock.month % 10), "-",
      DigitChar((clock.year \div 1000) % 10), DigitChar((clock.year \div 100) % 10),
      DigitChar((clock.year \div 10) % 10), DigitChar(clock.year % 10)>>

\* date_match.group(1) if date_match else datetime.now().strftime("%d-%m-%Y"),
\* with the last match in place of the first
ResolveDateLast(text, clock) ==
    LET date_match == DateSearchLast(text)
    IN  IF date_match # <<>> THEN date_match[1] ELSE Strftime(clock)

\* date_match.group(1) if date_match else datetime.now().strftime("%d-%m-%Y")
ResolveDate(text, clock) ==
    LET date_match == DateSearch(text)
    IN  IF date_match # <<>> THEN date_match[1] ELSE Strftime(clock)

\* ocr_text.replace('\r', '\n')
ReplaceCR(s) == [k \in 1..Len(s) |-> IF s[k] = "\r" THEN "\n" ELSE s[k]]

\* s.split('\n') from position p, cur being the piece read so far
RECURSIVE SplitFrom(_, _, _)
SplitFrom(s, p, cur) ==
    IF p > Len(s) THEN <<cur>>
    ELSE IF s[p] = "\n" THEN <<cur>> \o SplitFrom(s, p + 1, <<>>)
    ELSE SplitFrom(s, p + 1, Append(cur, s[p]))

\* lines = ocr_text.replace('\r', '\n').split('\n')
\* lines = [line.strip() for line in lines if line.strip()]
SplitLines(text) ==
    LET raw      == SplitFrom(ReplaceCR(text), 1, <<>>)
        stripped == [k \in 1..Len(raw) |-> Strip(raw[k])]
    IN  SelectSeq(stripped, LAMBDA l : l # <<>>)

\* the filter with the length test off by one
IsSkippedShort(line) ==
    \/ line = <<>>
    \/ Contains(LowerSeq(line), <<"t", "a", "n", "t", "y">>)
    \/ Len(line) < 4

\* not line or 'tanty' in line.lower() or len(line) < 5
IsSkipped(line) ==
    \/ line = <<>>
    \/ Contains(LowerSeq(line), <<"t", "a", "n", "t", "y">>)
    \/ Len(line) < 5

\* numbers[k] counted from the front: the first two tokens instead of the last two
FrontIndex(s, k) == s[3 - k]

\* s[-k]
NegIndex(s, k) == s[Len(s) - k + 1]

\* list.insert(0, x)
PrependTo(list, x) == <<x>> \o list

\* list.append(x)
AppendTo(list, x) == Append(list, x)

\* the dictionary built at lines 184-191 and 214-221
Transaction(date, quantity, description, unit_price, total_amount) ==
    [date |-> date, quantity |-> quantity, description |-> description,
     unit_price |-> unit_price, total_amount |-> total_amount, currency |-> "Rp"]

NoTransaction == Transaction(<<>>, <<>>, <<>>, Zero, Zero)

Outcome(kind, rec) == [kind |-> kind, rec |-> rec]

\* the first branch of the loop body: the strict pattern has matched
StrictBranch(match, date) ==
    LET quantity     == Strip(match.g1)
        description  == Strip(match.g2)
        unit_price   == ToFloat(match.g3)
        total_amount == ToFloat(match.g4)
    IN  IF ~unit_price.ok \/ ~total_amount.ok
        THEN Outcome("raise", NoTransaction)
        ELSE Outcome("append",
                     Transaction(date, quantity, description, unit_price, total_amount))

\* the else branch of the loop body: the alternative pattern
AltBranch(line, date) ==
    LET qty_match == QtyPattern(line)
        numbers   == FindAllNumbers(line)
    IN  IF ~qty_match.matched
        THEN Outcome("no quantity", NoTransaction)
        ELSE IF ~(Len(numbers) >= 2)
        THEN Outcome("not enough numbers", NoTransaction)
        ELSE LET quantity     == Strip(qty_match.g1)
                 description  == Strip(RemoveNumbers(Strip(qty_match.g2)))
                 unit_price   == IF Len(numbers) >= 2
                                 THEN ToFloat(NegIndex(numbers, 2)) ELSE Zero
                 total_amount == IF numbers # <<>>
                                 THEN ToFloat(NegIndex(numbers, 1)) ELSE Zero
             IN  IF ~unit_price.ok \/ ~total_amount.ok
                 THEN Outcome("raise", NoTransaction)
                 ELSE IF Positive(unit_price) /\ Positive(total_amount)
                 THEN Outcome("append",
                              Transaction(date, quantity, description,
                                          unit_price, total_amount))
                 ELSE Outcome("invalid prices", NoTransaction)

\* the body of the for loop on one line
LoopBody(line, date) ==
    IF IsSkipped(line)
    THEN Outcome("skip", NoTransaction)
    ELSE LET match == TransactionPattern(line)
         IN  IF match.matched THEN StrictBranch(match, date) ELSE AltBranch(line, date)

-----------------------------------------------------------------------------
(* Inputs *)

MaxLines == 2

\* the days the clock shows, in order
ClockDays == <<[day |-> 9, month |-> 7, year |-> 2025],
               [day |-> 10, month |-> 7, year |-> 2025]>>

\* first lines of a page: none, a header whose date stands inside a longer
\* run of digits, a dated letterhead line with a second date
Headers ==
    { <<>>,
      <<"S", "e", "n", "i", "n", " ", "1", "1", "4", "-", "7", "-", "2", "0", "2", "5", "6">>,
      <<"T", "A", "N", "T", "Y", " ", "5", "/", "0", "8", "/", "2", "5", " ", "1", "-", "1", "-", "1", "1">> }

SampleLines ==
    { <<"1", "p", "c", " ", "B", "a", "l", "o", "n", " ", "8", "5", " ", "8", "6", "0", "0", "0">>,
      <<"1", "p", "c", " ", "I", "t", "e", "m", "8", "5", " ", "8", "6", "0", "0", "0", " ", "e", "x", "t", "r", "a">>,
      <<"1", "p", "c", " ", "T", "a", "n", "t", "y", " ", "8", "5", " ", "8", "6", "0", "0", "0">>,
      <<"1", "p", " ", "5">>,
      <<" ">>,
      <<"1", "p", "c", " ", "B", "a", "l", " ", "1", "/", "2", "/", "3", "4", " ", "5">>,
      <<" ", "1", "p", "c", " ", "B", "a", "l", "o", "n", "\t">>,
      <<"2", " ", "P", "C", " ", "S", "t", "d", " ", "1", ".", "5", "0", " ", "0", " ", "x">> }

LineEnds == { <<"\n">>, <<"\r">> }

RECURSIVE Join(_, _)
Join(ls, sep) ==
    IF ls = <<>> THEN <<>>
    ELSE IF Len(ls) = 1 THEN ls[1]
    ELSE ls[1] \o sep \o Join(Tail(ls), sep)

Bodies == UNION { [1..n -> SampleLines] : n \in 0..MaxLines }

NoPrev == [valid |-> FALSE, result |-> <<>>, clock |-> ClockDays[1]]

\* the state before the first call
Idle ==
    /\ now = ClockDays[1]
    /\ pc = "idle"
    /\ transaction_date = <<>>
    /\ lines = <<>>
    /\ i = 1
    /\ transactions = <<>>
    /\ origin = <<>>
    /\ clock_at_call = ClockDays[1]
    /\ prev = NoPrev

\* a page: an optional first line, then up to MaxLines lines
Init ==
    /\ \E header \in Headers, body \in Bodies, sep \in LineEnds :
          /\ shape = [header |-> header, body |-> body, sep |-> sep]
          /\ ocr_text = Join((IF header = <<>> THEN <<>> ELSE <<header>>) \o body, sep)
    /\ Idle

\* pieces of one ledger line: text before the quantity, the count, the
\* marker, the description, the two amounts, text after them
Pre == { <<>>, <<"T", "o", "t", "a", "l", " ">> }

Count == { <<"1">>, <<"2">> }

Gap == { <<>>, <<" ">> }

Marker == { <<"p", "c">>, <<"p", "c", "s">>, <<"P", "C">>, <<"p">>, <<"k", "g">> }

Desc == { <<"B", "a", "l", "o", "n">>, <<"S", "t", "d", " ", "A", "y", "a", "n", "a">>,
          <<"T", "a", "n", "t", "y">>, <<"I", "t", "e", "m", "8", "5">> }

Num1 == { <<>>, <<"8", "5">>, <<"0">>, <<"1", ".", "5", "0">> }

Num2 == { <<>>, <<"1", "7", "0", "0", "0", "0">>, <<"0">> }

Trail == { <<>>, <<" ", "e", "x", "t", "r", "a">> }

\* a piece with the blank that separates it from the piece before it
Sp(x) == IF x = <<>> THEN <<>> ELSE <<" ">> \o x

\* a page of one line, written piece by piece
InitLine ==
    /\ \E pre \in Pre, count \in Count, gap \in Gap, marker \in Marker,
          desc \in Desc, n1 \in Num1, n2 \in Num2, trail \in Trail :
          /\ shape = [pre |-> pre, count |-> count, gap |-> gap, marker |-> marker,
                      desc |-> desc, n1 |-> n1, n2 |-> n2, trail |-> trail]
          /\ ocr_text = pre \o count \o gap \o marker \o Sp(desc) \o Sp(n1) \o Sp(n2) \o trail
    /\ Idle

-----------------------------------------------------------------------------
(* Operations *)

\* a call that keeps the records of the call before it
StartKeeping ==
    /\ pc \in {"idle", "done"}
    /\ prev' = IF pc = "done"
               THEN [valid |-> TRUE, result |-> transactions, clock |-> clock_at_call]
               ELSE prev
    /\ clock_at_call' = now
    /\ transaction_date' = ResolveDate(ocr_text, now)
    /\ lines' = SplitLines(ocr_text)
    /\ i' = 1
    /\ pc' = "loop"
    /\ UNCHANGED <<ocr_text, now, shape, transactions, origin>>

\* parse_handwritten_transactions is called: lines 148-160
Start ==
    /\ pc \in {"idle", "done"}
    /\ prev' = IF pc = "done"
               THEN [valid |-> TRUE, result |-> transactions, clock |-> clock_at_call]
               ELSE prev
    /\ clock_at_call' = now
    /\ transactions' = <<>>
    /\ origin' = <<>>
    /\ transaction_date' = ResolveDate(ocr_text, now)
    /\ lines' = SplitLines(ocr_text)
    /\ i' = 1
    /\ pc' = "loop"
    /\ UNCHANGED <<ocr_text, now, shape>>

\* one iteration of the for loop: lines 163-229
Step ==
    /\ pc = "loop"
    /\ i <= Len(lines)
    /\ LET Apply(out) ==
               /\ pc' = IF out.kind = "raise" THEN "raised" ELSE "loop"
               /\ transactions' = IF out.kind = "append"
                                  THEN AppendTo(transactions, out.rec) ELSE transactions
               /\ origin' = IF out.kind = "append" THEN AppendTo(origin, i) ELSE origin
       IN  Apply(LoopBody(lines[i], transaction_date))
    /\ i' = i + 1
    /\ UNCHANGED <<ocr_text, now, shape, transaction_date, lines, clock_at_call,
                   prev>>

\* the loop is over: return transactions, line 232
Return ==
    /\ pc = "loop"
    /\ i > Len(lines)
    /\ pc' = "done"
    /\ UNCHANGED <<ocr_text, now, shape, transaction_date, lines, i, transactions,
                   origin, clock_at_call, prev>>

\* the clock moves to the next day
Tick ==
    /\ \E k \in 1..(Len(ClockDays) - 1) : now = ClockDays[k] /\ now' = ClockDays[k + 1]
    /\ UNCHANGED <<ocr_text, shape, pc, transaction_date, lines, i, transactions,
                   origin, clock_at_call, prev>>

Next == Start \/ Step \/ Return \/ Tick

Spec == Init /\ [][Next]_vars


SpecLine == InitLine /\ [][Next]_vars

-----------------------------------------------------------------------------
(* Vocabulary of the properties *)

\* the indices of the lines the running call has gone through
Processed == 1..(IF pc \in {"loop", "done"} THEN i - 1 ELSE 0)

\* the line indices that have a record
Origins == {origin[k] : k \in 1..Len(origin)}

NoDigit(s) == \A k \in 1..Len(s) : ~IsDigit(s[k])

\* the noise keyword somewhere in the line, in any letter case
HasNoise(line) ==
    \E p \in 1..(Len(line) - 4) :
        /\ line[p] \in {"t", "T"}
        /\ line[p + 1] \in {"a", "A"}
        /\ line[p + 2] \in {"n", "N"}
        /\ line[p + 3] \in {"t", "T"}
        /\ line[p + 4] \in {"y", "Y"}

\* the number n as a float value
Amount(n) == [ok |-> TRUE, i |-> n, f |-> <<>>]

\* s holds, from position a on, dl digits, a separator, ml digits, a
\* separator and yl digits
DateLikeAt(s, a, dl, ml, yl) ==
    /\ a + dl + ml + yl + 1 <= Len(s)
    /\ \A k \in 0..(dl - 1) : IsDigit(s[a + k])
    /\ s[a + dl] \in {"-", "/"}
    /\ \A k \in 1..ml : IsDigit(s[a + dl + k])
    /\ s[a + dl + ml + 1] \in {"-", "/"}
    /\ \A k \in 2..(yl + 1) : IsDigit(s[a + dl + ml + k])

DateShapes == (1..2) \X (1..2) \X (2..4)

\* the lengths of the date-like substrings of s that start at a
DateLengths(s, a) ==
    {sh[1] + sh[2] + sh[3] + 2 : sh \in {x \in DateShapes : DateLikeAt(s, a, x[1], x[2], x[3])}}

DateStarts(s) == {a \in 1..Len(s) : IsDigit(s[a]) /\ DateLengths(s, a) # {}}

Max(S) == CHOOSE x \in S : \A y \in S : y <= x

Min(S) == CHOOSE x \in S : \A y \in S : x <= y

\* the records without their date
Undated(list) ==
    [k \in 1..Len(list) |->
        [quantity |-> list[k].quantity, description |-> list[k].description,
         unit_price |-> list[k].unit_price, total_amount |-> list[k].total_amount,
         currency |-> list[k].currency]]

\* the pieces of the page, trimmed, the blank ones left out
WrittenLines ==
    LET pieces   == (IF shape.header = <<>> THEN <<>> ELSE <<shape.header>>) \o shape.body
        stripped == [k \in 1..Len(pieces) |-> Strip(pieces[k])]
    IN  SelectSeq(stripped, LAMBDA l : l # <<>>)

\* the line would give a record by one of the two passes
Yields(line) ==
    \/ TransactionPattern(line).matched
    \/ /\ QtyPattern(line).matched
       /\ LET numbers == FindAllNumbers(line)
          IN  /\ Len(numbers) >= 2
              /\ Positive(ToFloat(numbers[Len(numbers) - 1]))
              /\ Positive(ToFloat(numbers[Len(numbers)]))

LineItem85 ==
    <<"1", "p", "c", " ", "I", "t", "e", "m", "8", "5", " ", "8", "6", "0", "0", "0", " ", "e", "x", "t", "r", "a">>

-----------------------------------------------------------------------------
(* Properties *)

\* C1: every record of the list has unit_price > 0 and total_amount > 0,
\* whichever pass produced it.
C1_AmountsPositive ==
    \A k \in 1..Len(transactions) :
        Positive(transactions[k].unit_price) /\ Positive(transactions[k].total_amount)

\* C2: a line in the documented format (count, "pc" or "pcs", a digit-free
\* description, unit price, total) yields exactly one record with the
\* quantity as written, the description, the first trailing number as
\* unit_price and the second as total_amount.
C2_SupportedFormat ==
    ( /\ pc = "done"
      /\ shape.pre = <<>> /\ shape.gap = <<>> /\ shape.trail = <<>>
      /\ shape.marker \in {<<"p", "c">>, <<"p", "c", "s">>}
      /\ NoDigit(shape.desc) /\ ~HasNoise(shape.desc)
      /\ shape.n1 # <<>> /\ shape.n2 # <<>> )
    => transactions = <<Transaction(transaction_date, shape.count \o shape.marker,
                                    shape.desc, ToFloat(shape.n1), ToFloat(shape.n2))>>

\* C3: every record comes from a line that begins with the quantity token,
\* and the record's quantity is that leading token.
C3_LeadingQuantity ==
    \A k \in 1..Len(transactions) :
        LET line == lines[origin[k]]
        IN  /\ MatchQty(line, 1) # 0
            /\ transactions[k].quantity = Slice(line, 1, MatchQty(line, 1))

\* C4: on an accepted line where the strict pattern fails and the quantity
\* prefix matches, the numeric tokens are those of the whole line (the digits
\* of the quantity included); fewer than two tokens give no record; otherwise
\* the record holds the prefix token, the rest of the line without its
\* numeric tokens, trimmed, the second-to-last token as unit_price and the
\* last token as total_amount, and it is there only if both are > 0.
C4_Salvage ==
    \A n \in Processed :
        LET line == lines[n]
        IN  (~IsSkipped(line) /\ ~TransactionPattern(line).matched /\ QtyPattern(line).matched)
            => LET numbers == FindAllNumbers(line)
                   e1      == MatchQty(line, 1)
                   up      == ToFloat(numbers[Len(numbers) - 1])
                   tot     == ToFloat(numbers[Len(numbers)])
               IN  /\ shape.pre = <<>> => numbers[1] = shape.count
                   /\ Len(numbers) < 2 => n \notin Origins
                   /\ Len(numbers) >= 2 =>
                        /\ n \in Origins <=> (Positive(up) /\ Positive(tot))
                        /\ \A k \in 1..Len(transactions) :
                              origin[k] = n =>
                                /\ transactions[k].quantity = Slice(line, 1, e1)
                                /\ transactions[k].description =
                                     Strip(RemoveNumbers(Slice(line, e1, Len(line) + 1)))
                                /\ NoDigit(transactions[k].description)
                                /\ transactions[k].unit_price = up
                                /\ transactions[k].total_amount = tot

\* a record of the salvage pass whose two numbers are the count of the
\* quantity and the one amount of the line
C4_Witness ==
    /\ pc = "done"
    /\ Len(transactions) = 1
    /\ ~TransactionPattern(lines[1]).matched
    /\ Len(FindAllNumbers(lines[1])) = 2
    /\ transactions[1].unit_price = ToFloat(shape.count)

\* C5 as stated: "1pc Item85 86000 extra" gives one record, description
\* without digits and trimmed, unit_price 86000, total_amount the last
\* number of the line.
C5_AsStated ==
    (pc = "done" /\ lines = <<LineItem85>>)
    => /\ Len(transactions) = 1
       /\ NoDigit(transactions[1].description)
       /\ transactions[1].description = Strip(transactions[1].description)
       /\ transactions[1].unit_price = Amount(86000)
       /\ transactions[1].total_amount = Amount(86000)

\* C5 amended: "1pc Item85 86000 extra" gives one record by the salvage
\* pass, quantity "1pc", description "Item  extra" (digits removed, trimmed),
\* unit_price 85 (the second-to-last number), total_amount 86000 (the last).
C5_Amended ==
    (pc = "done" /\ lines = <<LineItem85>>)
    => /\ ~TransactionPattern(LineItem85).matched
       /\ Len(transactions) = 1
       /\ transactions[1].quantity = <<"1", "p", "c">>
       /\ transactions[1].description = <<"I", "t", "e", "m", " ", " ", "e", "x", "t", "r", "a">>
       /\ transactions[1].unit_price = Amount(85)
       /\ transactions[1].total_amount = Amount(86000)

C5_Witness == pc = "done" /\ lines = <<LineItem85>> /\ Len(transactions) = 1

\* C6: all records of a call carry the date of the call; it is the first
\* date-like substring of the whole text (leftmost start, all the digits of
\* the year up to four), verbatim; without such a substring it is the clock's
\* date at the call, as DD-MM-YYYY.
C6_Date ==
    pc \in {"loop", "done"} =>
        /\ \A k \in 1..Len(transactions) : transactions[k].date = transaction_date
        /\ LET starts == DateStarts(ocr_text)
               d      == transaction_date
           IN  IF starts # {}
               THEN LET a == Min(starts)
                    IN  d = SubSeq(ocr_text, a, a + Max(DateLengths(ocr_text, a)) - 1)
               ELSE /\ Len(d) = 10
                    /\ d[3] = "-" /\ d[6] = "-"
                    /\ \A k \in {1, 2, 4, 5, 7, 8, 9, 10} : IsDigit(d[k])
                    /\ DigitsValue(SubSeq(d, 1, 2)) = clock_at_call.day
                    /\ DigitsValue(SubSeq(d, 4, 5)) = clock_at_call.month
                    /\ DigitsValue(SubSeq(d, 7, 10)) = clock_at_call.year

\* two records dated from a skipped letterhead line that holds two dates
C6_Witness ==
    /\ pc = "done"
    /\ Len(transactions) = 2
    /\ HasNoise(lines[1])
    /\ Cardinality(DateStarts(lines[1])) >= 2
    /\ transaction_date = <<"5", "/", "0", "8", "/", "2", "5">>

\* C7: a line shorter than 5 characters, or holding the noise keyword in any
\* letter case, has no record; the other lines have the records they have
\* without it.
C7_Filter ==
    /\ \A k \in 1..Len(transactions) :
          Len(lines[origin[k]]) >= 5 /\ ~HasNoise(lines[origin[k]])
    /\ \A n \in Processed :
          n \in Origins <=> (Len(lines[n]) >= 5 /\ ~HasNoise(lines[n]) /\ Yields(lines[n]))

\* a well-formed transaction line with the noise keyword is skipped and the
\* line after it has its record
C7_Witness ==
    /\ pc = "done"
    /\ Len(lines) = 2
    /\ HasNoise(lines[1]) /\ TransactionPattern(lines[1]).matched
    /\ origin = <<2>>

\* C8: the lines are the non-empty trimmed pieces of the text split on \r
\* and \n; each gives at most one record; the records are in the order of
\* their lines; identical lines each have their own record.
C8_DocumentOrder ==
    /\ pc \in {"loop", "done"} => lines = WrittenLines
    /\ Len(origin) = Len(transactions)
    /\ \A k \in 1..Len(origin) : origin[k] \in Processed
    /\ \A j, k \in 1..Len(origin) : j < k => origin[j] < origin[k]
    /\ \A m, n \in Processed : lines[m] = lines[n] => (m \in Origins <=> n \in Origins)
    /\ \A k \in 1..Len(transactions) :
          transactions[k] = LoopBody(lines[origin[k]], transaction_date).rec

\* a dropped header, then the same line twice, each with its record
C8_Witness ==
    /\ pc = "done"
    /\ Len(lines) = 3
    /\ lines[2] = lines[3]
    /\ origin = <<2, 3>>

\* C9: the call never raises; a line neither pass can use is dropped and the
\* loop goes on to the last line; a text with no line, or none that passes
\* the filter, gives the empty list.
C9_NoError ==
    /\ pc # "raised"
    /\ pc = "done" => i = Len(lines) + 1
    /\ \A n \in Processed : ~Yields(lines[n]) => n \notin Origins
    /\ (pc = "done" /\ \A n \in 1..Len(lines) : IsSkipped(lines[n])) => transactions = <<>>

\* a line with too few numbers is dropped and the line after it has its record
C9_Witness ==
    /\ pc = "done"
    /\ Len(lines) = 2
    /\ ~IsSkipped(lines[1]) /\ QtyPattern(lines[1]).matched
    /\ Len(FindAllNumbers(lines[1])) < 2
    /\ origin = <<2>>

\* C10 as stated: a second call on the same text returns the list the first
\* call returned, for every text.
C10_AsStated == (pc = "done" /\ prev.valid) => transactions = prev.result

\* C10 amended: a second call on the same text returns the same records up
\* to their date, and the same list when the text holds a date-like
\* substring or the clock shows the same day at both calls.
C10_Amended ==
    (pc = "done" /\ prev.valid) =>
        /\ Undated(transactions) = Undated(prev.result)
        /\ (DateStarts(ocr_text) # {} \/ prev.clock = clock_at_call)
              => transactions = prev.result

\* two calls on different days return the same non-empty list
C10_Witness ==
    /\ pc = "done"
    /\ prev.valid
    /\ prev.clock # clock_at_call
    /\ transactions # <<>>
    /\ transactions = prev.result

====
